---- MODULE Spec2Model ----
(***************************************************************************)
(* Build-log aggregation of jx (package logs, carried in                   *)
(* src/pkg/gits/provider_fake.go from line 788 on):                        *)
(*   - GetRunningBuildLogs / waitForContainerToStart: the streaming loop   *)
(*     over the PipelineRuns and build pods of one PipelineActivity;       *)
(*   - GetTektonPipelinesWithActivePipelineActivity: the correlation of    *)
(*     PipelineActivities with PipelineRuns.                               *)
(***************************************************************************)
EXTENDS Naturals, Sequences, FiniteSets, TLC

(***************************************************************************)
(* Bounds of the model.                                                    *)
(***************************************************************************)
\* The loop-iteration counter saturates here (the loop itself is not cut).
MaxIters == 2
\* Changes the platform makes to runs and pods while one call is running.
MaxEnvSteps == 1

(***************************************************************************)
(* Strings.  strings.ToLower on the vocabulary of the model: the labels    *)
(* are joined with separators that have no upper case, so lowering the     *)
(* formatted key is lowering its parts.                                    *)
(***************************************************************************)
ToLower(s) ==
  CASE s = "Master" -> "master"
    [] s = "Acme"   -> "acme"
    [] s = "Widgets" -> "widgets"
    [] OTHER        -> s

(***************************************************************************)
(* The platform as GetRunningBuildLogs sees it.                            *)
(***************************************************************************)
\* The PipelineActivity handed to GetRunningBuildLogs (pa.Spec.*).
Activity == [owner |-> "acme", repo |-> "widgets", branch |-> "master", build |-> "7"]

PodNames == {"p1", "p2"}
RunNames == {"r1", "r2"}
\* The containers (sub-tasks) of a build pod, in declared order.
Containers == <<"build", "test">>

\* Label sets a build pod may carry (owner, repository, branch, build).
PodLabelSets ==
  { [owner |-> "acme", repo |-> "widgets", branch |-> "master", build |-> "7"],
    [owner |-> "acme", repo |-> "widgets", branch |-> "Master", build |-> "7"],
    [owner |-> "acme", repo |-> "widgets", branch |-> "master", build |-> "8"] }

\* Values of the pod label builds.LabelPipelineRunName ("" when absent).
RunLabels == RunNames \cup {""}

\* What Pods(ns).Get hands back with an error: the typed client returns an
\* empty pod, the fake clientset a nil pointer.
EmptyPod == [name |-> "", failed |-> FALSE, started |-> 0]
NilPod == [name |-> "nil", failed |-> FALSE, started |-> 0]

VARIABLES
  \* platform state
  runs,                \* names of the PipelineRuns the activity's selector returns
  podCfg,              \* per pod: labels, run-name label, creation time (fixed at creation)
  podLive,             \* per pod: listed, phase failed, number of started containers
  envSteps,            \* platform changes made during the call
  \* GetRunningBuildLogs
  pc,
  pipelineRunNames,
  pipelineRunsLogged,
  foundLogs,
  pods,                \* the sorted pod list of the current iteration (snapshots)
  podIdx,              \* position of the range loop over pods
  runsSeenForPods,
  cur,                 \* the loop variable pod, as reassigned by waitForContainerToStart
  ci,                  \* container index i
  result,
  \* observation
  out,                 \* the calls the LogWriter received, in order
  iters,               \* loop bodies begun (saturating at MaxIters)
  \* GetTektonPipelinesWithActivePipelineActivity
  paList,              \* the PipelineActivities the list query returns
  prList,              \* the PipelineRuns the list query returns
  mpc,
  paMap,
  tektonPRs,           \* tektonPRs.Items
  mi,                  \* position of the range loop over tektonPRs.Items
  names,
  mres,                \* what the calls made so far returned, in order
  \* StreamPipelinePersistentLogs
  logsURL,             \* the scheme of the URL of the stored log
  content,             \* the content of the stored object
  fpc,
  readCalls,           \* calls of buckets.ReadURL
  data,                \* what buckets.ReadURL returned
  httpFnCalls,         \* calls of the function createBucketHTTPFn returned
  resolverCalls,       \* calls of co.CreateGitAuthConfigService
  resolverRet,         \* what the last call of the resolver returned
  httpFnRet,           \* what the last call of that function returned
  fout,                \* the calls the LogWriter received, in order
  fres,                \* what the calls made so far returned, in order
  \* createPipelineActivityName called on its own
  nlabels,             \* the labels handed in
  nbuild,              \* the build number handed in
  nkey,                \* the name returned
  \* FakeProvider: the repository acme/widgets of f.Repositories
  built,               \* how the FakeRepository was made
  issueCount,          \* repo.issueCount
  pullRequests,        \* repo.PullRequests: number -> commits of the pull request
  issues,              \* repo.Issues: the numbers stored
  commits,             \* repo.Commits: the SHAs in order
  releases,            \* repo.Releases: tag -> release info
  assigned,            \* the numbers successful create calls returned, in order
  lastMerged,          \* the pull request the last successful merge removed
  releaseCalls,        \* calls of UpdateRelease and GetRelease made
  last                 \* the last call of the provider and what it returned

logsVars == <<runs, podCfg, podLive, envSteps, pc, pipelineRunNames, pipelineRunsLogged,
              foundLogs, pods, podIdx, runsSeenForPods, cur, ci, result, out, iters>>

matchVars == <<paList, prList, mpc, paMap, tektonPRs, mi, names, mres>>

fetchVars == <<logsURL, content, fpc, readCalls, data, httpFnCalls, resolverCalls, resolverRet,
               httpFnRet, fout, fres>>

nameVars == <<nlabels, nbuild, nkey>>

fakeVars == <<built, issueCount, pullRequests, issues, commits, releases, assigned, lastMerged,
              releaseCalls, last>>

auxVars == <<nameVars, fakeVars>>

vars == <<logsVars, matchVars, fetchVars, auxVars>>

envVars == <<runs, podCfg, podLive, envSteps>>
progVars == <<pc, pipelineRunNames, pipelineRunsLogged, foundLogs, pods, podIdx,
              runsSeenForPods, cur, ci, result, out, iters>>

(***************************************************************************)
(* Helpers of other packages, used by the loop.                            *)
(***************************************************************************)
\* The pod object a list or get returns for pod p now.
Snapshot(p) == [name |-> p, failed |-> podLive[p].failed, started |-> podLive[p].started]

\* builds.GetBuildPods followed by sort.Slice on CreationTimestamp.Before:
\* every order of the listed pods that is ascending in creation time (the
\* order of the list call and of equal timestamps is not fixed).
\* AnyOrder is the list left as the list call returned it.
AnyOrder(s) == TRUE

IsAscending(s) ==
  \A i, j \in 1..Len(s) : i < j => podCfg[s[i].name].created <= podCfg[s[j].name].created

SortedPods ==
  LET listed == {p \in PodNames : podLive[p].listed}
      n == Cardinality(listed)
  IN  { s \in [1..n -> {Snapshot(p) : p \in listed}] :
          /\ \A i, j \in 1..n : i # j => s[i] # s[j]
          /\ IsAscending(s) }

\* kube.HasContainerStarted(pod, idx), idx counted from 1 here.
HasContainerStarted(pod, idx) == idx <= pod.started

\* builds.CreateBuildPodInfo(pod): organisation, repository, branch, build.
CreateBuildPodInfo(pod) == podCfg[pod.name].labels

\* pod.Labels[builds.LabelPipelineRunName]
PipelineRunOf(pod) == podCfg[pod.name].run

(***************************************************************************)
(* GetRunningBuildLogs                                                     *)
(***************************************************************************)
\* Selected without the test of the Logged-Run Set.
SelectedIgnoringLogged(pod) ==
  LET params == CreateBuildPodInfo(pod)
  IN  /\ params.owner = Activity.owner
      /\ params.repo = Activity.repo
      /\ ToLower(params.branch) = ToLower(Activity.branch)
      /\ params.build = Activity.build

\* Selected with the branches compared as they are.
SelectedExactBranch(pod) ==
  LET params == CreateBuildPodInfo(pod)
      seen == PipelineRunOf(pod) \in pipelineRunsLogged
  IN  /\ ~seen
      /\ params.owner = Activity.owner
      /\ params.repo = Activity.repo
      /\ params.branch = Activity.branch
      /\ params.build = Activity.build

\* The condition of the if at lines 930-931.
Selected(pod) ==
  LET params == CreateBuildPodInfo(pod)
      seen == PipelineRunOf(pod) \in pipelineRunsLogged
  IN  /\ ~seen
      /\ params.owner = Activity.owner
      /\ params.repo = Activity.repo
      /\ ToLower(params.branch) = ToLower(Activity.branch)
      /\ params.build = Activity.build

\* The loop condition with >= for >.
LoopConditionAtLeast == Cardinality(pipelineRunNames) >= Cardinality(pipelineRunsLogged)

\* The loop condition at line 910.
LoopCondition == Cardinality(pipelineRunNames) > Cardinality(pipelineRunsLogged)

\* The return after the loop without the test of foundLogs.
FinalResultAlwaysNil == "nil"

\* The return after the loop, lines 956-960.
FinalResult == IF ~foundLogs THEN "LogsUnavailable" ELSE "nil"

\* runsSeenForPods[pipelineRun] = true, line 932.
MarkSeen(seen, run) == seen \cup {run}

\* The merge that keeps only the runs of the last iteration.
MergeReplacing(logged, seen) == seen

\* for k, v := range runsSeenForPods { pipelineRunsLogged[k] = v }, lines 952-954.
MergeLogged(logged, seen) == logged \cup seen

Event(kind, ok) ==
  [k |-> kind, unit |-> pods[podIdx].name, pod |-> cur.name, c |-> ci, ok |-> ok,
   it |-> iters]

\* Lines 903-908: the first run query.
Start ==
  /\ pc = "start"
  /\ \/ /\ pipelineRunNames' = runs
        /\ pc' = "loop"
        /\ UNCHANGED result
     \/ /\ pc' = "done"
        /\ result' = "RunQueryError"
        /\ UNCHANGED pipelineRunNames
  /\ UNCHANGED <<auxVars, fetchVars, matchVars, envVars, pipelineRunsLogged, foundLogs, pods, podIdx,
                 runsSeenForPods, cur, ci, out, iters>>

\* Lines 910-920 and 956-960: the loop test, then either the pod list and
\* its sort, or the return after the loop.
LoopHead ==
  /\ pc = "loop"
  /\ IF LoopCondition
     THEN \/ /\ \E s \in SortedPods : pods' = s
             /\ podIdx' = 1
             /\ runsSeenForPods' = {}
             /\ iters' = IF iters < MaxIters THEN iters + 1 ELSE iters
             /\ pc' = "visit"
             /\ UNCHANGED result
          \/ /\ pc' = "done"
             /\ result' = "PodListError"
             /\ UNCHANGED <<pods, podIdx, runsSeenForPods, iters>>
     ELSE /\ pc' = "done"
          /\ result' = FinalResult
          /\ UNCHANGED <<pods, podIdx, runsSeenForPods, iters>>
  /\ UNCHANGED <<auxVars, fetchVars, matchVars, envVars, pipelineRunNames, pipelineRunsLogged, foundLogs, cur, ci, out>>

\* Lines 924-934: one pod of the range loop.
Visit ==
  /\ pc = "visit"
  /\ IF podIdx > Len(pods)
     THEN /\ pc' = "requery"
          /\ UNCHANGED <<podIdx, runsSeenForPods, foundLogs, cur, ci>>
     ELSE IF Selected(pods[podIdx])
     THEN /\ runsSeenForPods' = MarkSeen(runsSeenForPods, PipelineRunOf(pods[podIdx]))
          /\ foundLogs' = TRUE
          /\ cur' = pods[podIdx]
          /\ ci' = 1
          /\ pc' = "wait"
          /\ UNCHANGED podIdx
     ELSE /\ podIdx' = podIdx + 1
          /\ UNCHANGED <<pc, runsSeenForPods, foundLogs, cur, ci>>
  /\ UNCHANGED <<auxVars, fetchVars, matchVars, envVars, pipelineRunNames, pipelineRunsLogged, pods, result, out, iters>>

\* waitForContainerToStart, lines 963-981: the checks before the poll loop.
WaitEntry ==
  /\ pc = "wait"
  /\ IF cur = NilPod
     THEN /\ pc' = "done"
          /\ result' = "panic"
          /\ UNCHANGED out
     ELSE IF cur.failed \/ HasContainerStarted(cur, ci)
     THEN /\ pc' = "header"
          /\ UNCHANGED <<result, out>>
     ELSE /\ out' = Append(out, Event("waiting", TRUE))
          /\ pc' = "poll"
          /\ UNCHANGED result
  /\ UNCHANGED <<auxVars, fetchVars, matchVars, envVars, pipelineRunNames, pipelineRunsLogged, foundLogs, pods, podIdx,
                 runsSeenForPods, cur, ci, iters>>

\* waitForContainerToStart, lines 982-992: one poll that ends the loop (a
\* poll that finds the container not started leaves every variable as it is).
\* The get succeeds and finds the container started, lines 985-991.
PollStarted ==
  /\ pc = "poll"
  /\ cur.name \in PodNames
  /\ podLive[cur.name].listed
  /\ HasContainerStarted(Snapshot(cur.name), ci)
  /\ cur' = Snapshot(cur.name)
  /\ pc' = "header"
  /\ UNCHANGED <<auxVars, fetchVars, matchVars, envVars, pipelineRunNames, pipelineRunsLogged, foundLogs, pods, podIdx,
                 runsSeenForPods, ci, result, out, iters>>

\* The get fails, lines 985-988: the pod it came with and the error go back
\* to line 936, where the error is overwritten by that of the header line.
PollError ==
  /\ pc = "poll"
  /\ cur' \in {EmptyPod, NilPod}
  /\ pc' = "header"
  /\ UNCHANGED <<auxVars, fetchVars, matchVars, envVars, pipelineRunNames, pipelineRunsLogged, foundLogs, pods, podIdx,
                 runsSeenForPods, ci, result, out, iters>>

Poll == PollStarted \/ PollError

\* The step of the header line with the WriteLog left out.
HeaderOmitted ==
  /\ pc = "header"
  /\ pc' = "stream"
  /\ UNCHANGED <<auxVars, fetchVars, matchVars, envVars, pipelineRunNames, pipelineRunsLogged, foundLogs, pods, podIdx,
                 runsSeenForPods, cur, ci, result, out, iters>>

\* Lines 937-940: the header line.
Header ==
  /\ pc = "header"
  /\ \E ok \in BOOLEAN :
       /\ out' = Append(out, Event("header", ok))
       /\ IF ok
          THEN pc' = "stream" /\ UNCHANGED result
          ELSE pc' = "done" /\ result' = "WriteError"
  /\ UNCHANGED <<auxVars, fetchVars, matchVars, envVars, pipelineRunNames, pipelineRunsLogged, foundLogs, pods, podIdx,
                 runsSeenForPods, cur, ci, iters>>

\* The stream of one container with its error ignored.
StreamUnchecked ==
  /\ pc = "stream"
  /\ \E ok \in BOOLEAN :
       /\ out' = Append(out, Event("stream", ok))
       /\ IF ci < Len(Containers)
          THEN /\ ci' = ci + 1
               /\ pc' = "wait"
               /\ UNCHANGED <<result, podIdx>>
          ELSE /\ podIdx' = podIdx + 1
               /\ pc' = "visit"
               /\ UNCHANGED <<result, ci>>
  /\ UNCHANGED <<auxVars, fetchVars, matchVars, envVars, pipelineRunNames, pipelineRunsLogged, foundLogs, pods,
                 runsSeenForPods, cur, iters>>

\* Lines 941-945: the stream of one container, then the next container or pod.
Stream ==
  /\ pc = "stream"
  /\ \E ok \in BOOLEAN :
       /\ out' = Append(out, Event("stream", ok))
       /\ IF ~ok
          THEN /\ pc' = "done"
               /\ result' = "StreamError"
               /\ UNCHANGED <<ci, podIdx>>
          ELSE IF ci < Len(Containers)
          THEN /\ ci' = ci + 1
               /\ pc' = "wait"
               /\ UNCHANGED <<result, podIdx>>
          ELSE /\ podIdx' = podIdx + 1
               /\ pc' = "visit"
               /\ UNCHANGED <<result, ci>>
  /\ UNCHANGED <<auxVars, fetchVars, matchVars, envVars, pipelineRunNames, pipelineRunsLogged, foundLogs, pods,
                 runsSeenForPods, cur, iters>>

\* The end of the iteration with the logged PipelineRuns deleted from the
\* platform.
RequeryPruning ==
  /\ pc = "requery"
  /\ pipelineRunNames' = runs
  /\ pipelineRunsLogged' = MergeLogged(pipelineRunsLogged, runsSeenForPods)
  /\ runs' = runs \ runsSeenForPods
  /\ pc' = "loop"
  /\ UNCHANGED <<auxVars, fetchVars, matchVars, podCfg, podLive, envSteps, foundLogs, pods, podIdx,
                 runsSeenForPods, cur, ci, result, out, iters>>

\* Lines 948-954: the run query at the end of the iteration and the merge.
Requery ==
  /\ pc = "requery"
  /\ \/ /\ pipelineRunNames' = runs
        /\ pipelineRunsLogged' = MergeLogged(pipelineRunsLogged, runsSeenForPods)
        /\ pc' = "loop"
        /\ UNCHANGED result
     \/ /\ pc' = "done"
        /\ result' = "RunQueryError"
        /\ UNCHANGED <<pipelineRunNames, pipelineRunsLogged>>
  /\ UNCHANGED <<auxVars, fetchVars, matchVars, envVars, foundLogs, pods, podIdx, runsSeenForPods, cur, ci, out, iters>>

Program == Start \/ LoopHead \/ Visit \/ WaitEntry \/ Poll \/ Header \/ Stream \/ Requery

(***************************************************************************)
(* The platform changing under the call.                                   *)
(***************************************************************************)
\* The call observes the platform only through its queries: the run query at
\* "start" and "requery", the pod list at "loop", the get of the current pod
\* at "poll".  A change commutes with every step of the call that does not
\* read what it changes, so each change is placed right before a query that
\* reads it.
EnvBudget == envSteps < MaxEnvSteps
RunQueryNext == pc \in {"start", "requery"}
PodReadNext(p) == (pc = "loop" /\ LoopCondition) \/ (pc = "poll" /\ cur.name = p)

EnvPodAppear ==
  /\ EnvBudget
  /\ \E p \in PodNames :
       /\ PodReadNext(p)
       /\ ~podLive[p].listed
       /\ podLive' = [podLive EXCEPT ![p].listed = TRUE]
  /\ envSteps' = envSteps + 1
  /\ UNCHANGED <<runs, podCfg, progVars, matchVars, fetchVars, auxVars>>

EnvPodDelete ==
  /\ EnvBudget
  /\ \E p \in PodNames :
       /\ PodReadNext(p)
       /\ podLive[p].listed
       /\ podLive' = [podLive EXCEPT ![p].listed = FALSE]
  /\ envSteps' = envSteps + 1
  /\ UNCHANGED <<runs, podCfg, progVars, matchVars, fetchVars, auxVars>>

EnvContainerStart ==
  /\ EnvBudget
  /\ \E p \in PodNames :
       /\ PodReadNext(p)
       /\ podLive[p].listed
       /\ ~podLive[p].failed
       /\ podLive[p].started < Len(Containers)
       /\ podLive' = [podLive EXCEPT ![p].started = @ + 1]
  /\ envSteps' = envSteps + 1
  /\ UNCHANGED <<runs, podCfg, progVars, matchVars, fetchVars, auxVars>>

EnvPodFail ==
  /\ EnvBudget
  /\ \E p \in PodNames :
       /\ PodReadNext(p)
       /\ podLive[p].listed
       /\ ~podLive[p].failed
       /\ podLive' = [podLive EXCEPT ![p].failed = TRUE]
  /\ envSteps' = envSteps + 1
  /\ UNCHANGED <<runs, podCfg, progVars, matchVars, fetchVars, auxVars>>

EnvRunAppear ==
  /\ EnvBudget
  /\ RunQueryNext
  /\ \E r \in RunNames \ runs : runs' = runs \cup {r}
  /\ envSteps' = envSteps + 1
  /\ UNCHANGED <<podCfg, podLive, progVars, matchVars, fetchVars, auxVars>>

EnvRunDelete ==
  /\ EnvBudget
  /\ RunQueryNext
  /\ \E r \in runs : runs' = runs \ {r}
  /\ envSteps' = envSteps + 1
  /\ UNCHANGED <<podCfg, podLive, progVars, matchVars, fetchVars, auxVars>>

Environment ==
  EnvPodAppear \/ EnvPodDelete \/ EnvContainerStart \/ EnvPodFail \/ EnvRunAppear \/ EnvRunDelete

(***************************************************************************)
(* GetTektonPipelinesWithActivePipelineActivity                            *)
(***************************************************************************)
\* Bounds of the correlation: lengths of the two lists and calls in a row.
MaxActivities == 2
MaxRuns == 2
MaxCalls == 2

\* PipelineActivities the store may hold: labels owner, repository (the
\* legacy label repo is absent), branch, and Spec.Build.  a and b share a
\* canonical key, c is another build.
ActivitySet ==
  { [name |-> "a", owner |-> "acme", repository |-> "widgets", repo |-> "",
     branch |-> "master", build |-> "7"],
    [name |-> "b", owner |-> "acme", repository |-> "widgets", repo |-> "",
     branch |-> "Master", build |-> "7"],
    [name |-> "c", owner |-> "acme", repository |-> "widgets", repo |-> "",
     branch |-> "master", build |-> "8"] }

\* PipelineRuns the platform may hold: labels owner, repo (the label
\* repository is absent), branch, build, context; Spec.Params; creation time.
RunShapes ==
  { [name |-> "x1", build |-> "7", context |-> "ci", params |-> <<>>],
    [name |-> "x2", build |-> "", context |-> "release",
     params |-> <<[name |-> "build_id", value |-> "7"]>>],
    [name |-> "x3", build |-> "7", context |-> "",
     params |-> <<[name |-> "version", value |-> "1"], [name |-> "build_id", value |-> "9"]>>],
    [name |-> "x4", build |-> "", context |-> "ci", params |-> <<>>],
    [name |-> "x5", build |-> "", context |-> "ci",
     params |-> <<[name |-> "build_id", value |-> "8"]>>] }

RunSet ==
  { [name |-> x.name, owner |-> "acme", repository |-> "", repo |-> "widgets",
     branch |-> "master", build |-> x.build, context |-> x.context,
     params |-> x.params, created |-> t] : x \in RunShapes, t \in 1..2 }

\* The lists of at most n elements of S, no name twice.
ListsOf(S, n) ==
  UNION { { l \in [1..k -> S] : \A i, j \in 1..k : i # j => l[i].name # l[j].name } :
          k \in 0..n }

\* The name with the legacy label repo taken first.
createNameLegacyFirst(labels, buildNumber) ==
  LET repository == IF labels.repo = "" THEN labels.repository ELSE labels.repo
  IN  ToLower(labels.owner) \o "/" \o ToLower(repository) \o "/" \o ToLower(labels.branch)
        \o " #" \o ToLower(buildNumber)

\* Lines 860-867.
createPipelineActivityName(labels, buildNumber) ==
  LET repository == IF labels.repository = "" THEN labels.repo ELSE labels.repository
  IN  ToLower(labels.owner) \o "/" \o ToLower(repository) \o "/" \o ToLower(labels.branch)
        \o " #" \o ToLower(buildNumber)

\* The re-indexing without the delete.
replaceKeepingFormerName(m, formerName, newName) ==
  [k \in DOMAIN m \cup {newName} |-> IF k = newName THEN m[formerName] ELSE m[k]]

\* Lines 869-872: paMap[newName] = paMap[formerName]; delete(paMap, formerName).
replacePipelineActivityNameWithEnrichedName(m, formerName, newName) ==
  LET added == [k \in DOMAIN m \cup {newName} |-> IF k = newName THEN m[formerName] ELSE m[k]]
  IN  [k \in DOMAIN added \ {formerName} |-> added[k]]

\* findLegacyPipelineRunBuildNumber that never finds the parameter.
findLegacyNothing(pipelineRun) == ""

\* Lines 874-882: the value of the last parameter named build_id, else "".
findLegacyPipelineRunBuildNumber(pipelineRun) ==
  LET ps == pipelineRun.params
      hits == {i \in 1..Len(ps) : ps[i].name = "build_id"}
  IN  IF hits = {} THEN ""
      ELSE ps[CHOOSE i \in hits : \A j \in hits : j <= i].value

\* Lines 845-848.
RunBuildNumber(pr) ==
  IF pr.build = "" THEN findLegacyPipelineRunBuildNumber(pr) ELSE pr.build

\* Line 849.
RunKey(pr) == createPipelineActivityName(pr, RunBuildNumber(pr))

\* Line 851.
NameWithContext(pr) == RunKey(pr) \o " " \o pr.context

\* Lines 829-833: the index of the activities, a later one replacing an
\* earlier one of the same key.
BuildIndex(pas) ==
  LET keyOf(i) == createPipelineActivityName(pas[i], pas[i].build)
      keys == {keyOf(i) : i \in 1..Len(pas)}
  IN  [k \in keys |->
         pas[CHOOSE i \in 1..Len(pas) :
               keyOf(i) = k /\ \A j \in 1..Len(pas) : keyOf(j) = k => j <= i]]

\* Line 840: the less function, CreationTimestamp.After.
Newer(a, b) == a.created > b.created

\* Lines 839-841: sort.Slice, which on lists this short is an insertion sort:
\* each element moves left while it is less than its left neighbour.
InsertRun(sorted, x) ==
  LET stops == {j \in 1..Len(sorted) : ~Newer(x, sorted[j])}
      stop == IF stops = {} THEN 0 ELSE CHOOSE j \in stops : \A k \in stops : k <= j
  IN  SubSeq(sorted, 1, stop) \o <<x>> \o SubSeq(sorted, stop + 1, Len(sorted))

RECURSIVE SortRuns(_)
SortRuns(items) ==
  IF items = <<>> THEN <<>>
  ELSE InsertRun(SortRuns(SubSeq(items, 1, Len(items) - 1)), items[Len(items)])

\* The body of the range loop with the name appended and the map left alone.
ProcessRunNameOnly(st, pr) ==
  IF RunKey(pr) \in DOMAIN st.paMap
  THEN [paMap |-> st.paMap, names |-> Append(st.names, NameWithContext(pr))]
  ELSE st

\* Lines 844-855: the body of the range loop for one run.
ProcessRun(st, pr) ==
  IF RunKey(pr) \in DOMAIN st.paMap
  THEN [paMap |-> replacePipelineActivityNameWithEnrichedName(st.paMap, RunKey(pr),
                                                               NameWithContext(pr)),
        names |-> Append(st.names, NameWithContext(pr))]
  ELSE st

\* var names []string, line 843, carried over from the call before.
InitialNamesKept == names

\* var names []string, line 843.
InitialNames == <<>>

\* Lines 829-857 as a function of the two lists.
RECURSIVE RangeRuns(_, _)
RangeRuns(st, prs) ==
  IF prs = <<>> THEN st ELSE RangeRuns(ProcessRun(st, Head(prs)), Tail(prs))

MatchOf(pas, prs) ==
  RangeRuns([paMap |-> BuildIndex(pas), names |-> <<>>], SortRuns(prs))

Returned(err, clean) == [err |-> err, clean |-> clean, names |-> names, paMap |-> paMap]

\* Lines 822-841: the two list queries, the index and the sort.  A failed
\* activity list is returned; the error of the run list is dropped, and the
\* list it comes with is empty (typed client) or nil (fake clientset).
\* Calls are made in a row until one meets a failed query.
MatchStart ==
  /\ mpc = "idle"
  /\ Len(mres) < MaxCalls
  /\ \A k \in 1..Len(mres) : mres[k].clean
  /\ \/ /\ paMap' = BuildIndex(paList)
        /\ tektonPRs' = SortRuns(prList)
        /\ names' = InitialNames
        /\ mi' = 1
        /\ mpc' = "range"
        /\ UNCHANGED mres
     \/ /\ mres' = Append(mres, [err |-> "ActivityListError", clean |-> FALSE,
                                 names |-> <<>>, paMap |-> <<>>])
        /\ UNCHANGED <<mpc, paMap, tektonPRs, names, mi>>
     \/ /\ paMap' = BuildIndex(paList)
        /\ tektonPRs' = <<>>
        /\ names' = InitialNames
        /\ mi' = 1
        /\ mpc' = "rangeAfterError"
        /\ UNCHANGED mres
     \/ /\ mres' = Append(mres, [err |-> "panic", clean |-> FALSE,
                                 names |-> <<>>, paMap |-> <<>>])
        /\ UNCHANGED <<mpc, paMap, tektonPRs, names, mi>>
  /\ UNCHANGED <<auxVars, fetchVars, logsVars, paList, prList>>

\* Lines 844-855: one run of the range loop.
MatchRange ==
  /\ mpc \in {"range", "rangeAfterError"}
  /\ mi <= Len(tektonPRs)
  /\ LET st == ProcessRun([paMap |-> paMap, names |-> names], tektonPRs[mi])
     IN  paMap' = st.paMap /\ names' = st.names
  /\ mi' = mi + 1
  /\ UNCHANGED <<auxVars, fetchVars, logsVars, paList, prList, mpc, tektonPRs, mres>>

\* Line 857.
MatchReturn ==
  /\ mpc \in {"range", "rangeAfterError"}
  /\ mi > Len(tektonPRs)
  /\ mres' = Append(mres, Returned("nil", mpc = "range"))
  /\ mpc' = "idle"
  /\ UNCHANGED <<auxVars, fetchVars, logsVars, paList, prList, paMap, tektonPRs, mi, names>>

MatchNext == MatchStart \/ MatchRange \/ MatchReturn

\* No call of the correlation is made or running.
MatchIdle ==
  /\ paList = <<>>
  /\ prList = <<>>
  /\ mpc = "off"
  /\ paMap = <<>>
  /\ tektonPRs = <<>>
  /\ mi = 1
  /\ names = <<>>
  /\ mres = <<>>

(***************************************************************************)
(* StreamPipelinePersistentLogs                                            *)
(***************************************************************************)
\* Calls of StreamPipelinePersistentLogs made in a row.
MaxFetches == 2

\* Schemes of logsURL: buckets.ReadURL reads an http(s) URL through the
\* function it is handed, and opens a bucket URL without it.
Schemes == {"https", "gs"}

\* Contents of the stored log.
Contents == {"", "step 1\n", "step 1\nstep 2\n"}

\* The return of a call that never reached the writer.
ReadFailure(err) == [err |-> err, wrote |-> FALSE]

\* The start of the call with the credentials resolved when the function is
\* created.
FetchStartEager ==
  /\ fpc = "idle"
  /\ Len(fres) < MaxFetches
  /\ readCalls' = readCalls + 1
  /\ resolverCalls' = resolverCalls + 1
  /\ fpc' = "read"
  /\ UNCHANGED <<auxVars, logsVars, matchVars, logsURL, content, data, httpFnCalls, resolverRet, httpFnRet,
                 fout, fres>>

\* Lines 997-998: createBucketHTTPFn builds the closure, buckets.ReadURL is
\* entered.
FetchStart ==
  /\ fpc = "idle"
  /\ Len(fres) < MaxFetches
  /\ readCalls' = readCalls + 1
  /\ fpc' = "read"
  /\ UNCHANGED <<auxVars, logsVars, matchVars, logsURL, content, data, httpFnCalls, resolverCalls,
                 resolverRet, httpFnRet, fout, fres>>

\* buckets.ReadURL on a bucket URL: the object is read whole within the
\* deadline, or the read fails (network, authorization, deadline).
ReadDirect ==
  /\ fpc = "read"
  /\ logsURL = "gs"
  /\ \/ /\ data' = content
        /\ fpc' = "write"
        /\ UNCHANGED fres
     \/ /\ fres' = Append(fres, ReadFailure("ReadError"))
        /\ fpc' = "idle"
        /\ UNCHANGED data
  /\ UNCHANGED <<auxVars, logsVars, matchVars, logsURL, content, readCalls, httpFnCalls,
                 resolverCalls, resolverRet, httpFnRet, fout>>

\* Lines 1009-1014: the error of the resolver is the function's error, else
\* the function returns what step.CreateBucketHTTPFn(authSvc)(urlString) does.
HTTPFnReturn(r, inner) == IF r # "ok" THEN r ELSE inner

\* Lines 1006-1015, called by buckets.ReadURL on an http(s) URL: the resolver,
\* then step.CreateBucketHTTPFn(authSvc)(urlString).
CallHTTPFn ==
  /\ fpc = "read"
  /\ logsURL = "https"
  /\ httpFnCalls' = httpFnCalls + 1
  /\ resolverCalls' = resolverCalls + 1
  /\ \E r \in {"ok", "ResolverError"}, inner \in {"ok", "InnerError"} :
       /\ resolverRet' = r
       /\ httpFnRet' = HTTPFnReturn(r, inner)
       /\ fpc' = IF HTTPFnReturn(r, inner) = "ok" THEN "readAuthed" ELSE "authFailed"
  /\ UNCHANGED <<auxVars, logsVars, matchVars, logsURL, content, readCalls, data, fout, fres>>

\* buckets.ReadURL after the function failed: its error is the read's error,
\* returned at lines 999-1001.
ReadAuthFailed ==
  /\ fpc = "authFailed"
  /\ fres' = Append(fres, ReadFailure(httpFnRet))
  /\ fpc' = "idle"
  /\ UNCHANGED <<auxVars, logsVars, matchVars, logsURL, content, readCalls, data, httpFnCalls,
                 resolverCalls, resolverRet, httpFnRet, fout>>

\* buckets.ReadURL reading the URL the function returned.
ReadAuthed ==
  /\ fpc = "readAuthed"
  /\ \/ /\ data' = content
        /\ fpc' = "write"
        /\ UNCHANGED fres
     \/ /\ fres' = Append(fres, ReadFailure("ReadError"))
        /\ fpc' = "idle"
        /\ UNCHANGED data
  /\ UNCHANGED <<auxVars, logsVars, matchVars, logsURL, content, readCalls, httpFnCalls,
                 resolverCalls, resolverRet, httpFnRet, fout>>

\* One WriteLog of the fetcher, as call number n.
WriteEvent(n, ok) == [call |-> n, k |-> "write", line |-> data, ok |-> ok]

\* The return of the call with the content written twice.
FetchWriteTwice ==
  /\ fpc = "write"
  /\ \E ok \in BOOLEAN :
       /\ fout' = fout \o <<WriteEvent(Len(fres) + 1, TRUE), WriteEvent(Len(fres) + 1, ok)>>
       /\ fres' = Append(fres, [err |-> IF ok THEN "nil" ELSE "WriteError", wrote |-> TRUE])
  /\ fpc' = "idle"
  /\ UNCHANGED <<auxVars, logsVars, matchVars, logsURL, content, readCalls, data, httpFnCalls,
                 resolverCalls, resolverRet, httpFnRet>>

\* Line 1002: return logWriter.WriteLog(string(data)).
FetchWrite ==
  /\ fpc = "write"
  /\ \E ok \in BOOLEAN :
       /\ fout' = Append(fout, WriteEvent(Len(fres) + 1, ok))
       /\ fres' = Append(fres, [err |-> IF ok THEN "nil" ELSE "WriteError", wrote |-> TRUE])
  /\ fpc' = "idle"
  /\ UNCHANGED <<auxVars, logsVars, matchVars, logsURL, content, readCalls, data, httpFnCalls,
                 resolverCalls, resolverRet, httpFnRet>>

FetchNext == FetchStart \/ ReadDirect \/ CallHTTPFn \/ ReadAuthFailed \/ ReadAuthed \/ FetchWrite

\* No call of StreamPipelinePersistentLogs is made or running.
FetchIdle ==
  /\ logsURL = "gs"
  /\ content = ""
  /\ fpc = "off"
  /\ readCalls = 0
  /\ data = ""
  /\ httpFnCalls = 0
  /\ resolverCalls = 0
  /\ resolverRet = "none"
  /\ httpFnRet = "none"
  /\ fout = <<>>
  /\ fres = <<>>

(***************************************************************************)
(* createPipelineActivityName on any labels.                               *)
(***************************************************************************)
\* Label sets handed to createPipelineActivityName: each label absent ("")
\* or present, in lower case or with a capital.
LabelInputs ==
  [owner : {"", "acme", "Acme"}, repository : {"", "widgets", "Widgets"},
   repo : {"", "widgets", "gadgets"}, branch : {"", "master", "Master"}]

BuildInputs == {"", "7"}

\* The call, lines 860-867.
ApplyName ==
  /\ nkey = "none"
  /\ nkey' = createPipelineActivityName(nlabels, nbuild)
  /\ UNCHANGED <<logsVars, matchVars, fetchVars, fakeVars, nlabels, nbuild>>

\* createPipelineActivityName is not called.
NameIdle ==
  /\ nlabels = [owner |-> "", repository |-> "", repo |-> "", branch |-> ""]
  /\ nbuild = ""
  /\ nkey = "off"

(***************************************************************************)
(* FakeProvider: pull requests, issues and releases of one repository.     *)
(***************************************************************************)
\* The counter of the repository is not taken beyond this number.
MaxNumber == 3

\* Calls of UpdateRelease and GetRelease made in a row.
MaxReleaseCalls == 3

\* f.Repositories holds the organisation acme with the repository widgets;
\* calls address it, an absent organisation, or an absent repository.
Targets == {<<"acme", "widgets">>, <<"nobody", "widgets">>, <<"acme", "nothing">>}

\* The lookup every operation begins with (f.Repositories[org], then the
\* range over the repositories of the organisation).
Lookup(t) ==
  IF t[1] # "acme" THEN "OrgNotFound"
  ELSE IF t[2] # "widgets" THEN "RepoNotFound"
  ELSE "ok"

\* The repository was made by a literal that sets every map, or by
\* NewFakeRepository (lines 711-723), which leaves Issues and Releases nil.
Builds == {"literal", "NewFakeRepository"}
IssuesNil == built = "NewFakeRepository"
ReleasesNil == built = "NewFakeRepository"

\* data.Base, and the values of data.Head that differ from it.
Base == "s0"
Heads == {"s1", "s2"}

Tags == {"v1", "v2"}
\* A GitRelease, by its TagName.
Infos == [TagName : Tags]

\* The nil *GitRelease.
NoRelease == [TagName |-> "nil"]

Call(op, err) ==
  [op |-> op, err |-> err, number |-> 0, merged |-> "unset", sha |-> "unset",
   tag |-> "", info |-> NoRelease, ret |-> NoRelease]

Crashed == last.err = "panic"

\* m without the key k.
Without(m, k) == [x \in DOMAIN m \ {k} |-> m[x]]

\* Lines 161-227.
CreatePullRequest ==
  /\ ~Crashed
  /\ issueCount < MaxNumber
  /\ \E t \in Targets, head \in Heads \cup {Base} :
       IF Lookup(t) # "ok"
       THEN /\ last' = Call("CreatePullRequest", Lookup(t))
            /\ UNCHANGED <<issueCount, pullRequests, assigned>>
       ELSE LET number == issueCount + 1
            IN  /\ issueCount' = number
                /\ pullRequests' =
                     (number :> [commits |-> IF head # Base THEN <<head>> ELSE <<>>]) @@ pullRequests
                /\ assigned' = Append(assigned, [kind |-> "pr", number |-> number])
                /\ last' = [Call("CreatePullRequest", "nil") EXCEPT !.number = number]
  /\ UNCHANGED <<logsVars, matchVars, fetchVars, nameVars, releaseCalls, built, issues, commits, releases,
                 lastMerged>>

\* CreateIssue with a counter of its own for the issues.
CreateIssueOwnCounter ==
  /\ ~Crashed
  /\ ~IssuesNil
  /\ Cardinality(issues) < MaxNumber
  /\ LET number == Cardinality(issues) + 1
     IN  /\ issues' = issues \cup {number}
         /\ assigned' = Append(assigned, [kind |-> "issue", number |-> number])
         /\ last' = [Call("CreateIssue", "nil") EXCEPT !.number = number]
  /\ UNCHANGED <<logsVars, matchVars, fetchVars, nameVars, releaseCalls, built, issueCount, pullRequests,
                 commits, releases, lastMerged>>

\* Lines 531-550.  The write to a nil Issues map panics after the counter was
\* incremented.
CreateIssue ==
  /\ ~Crashed
  /\ issueCount < MaxNumber
  /\ \E t \in Targets :
       IF Lookup(t) # "ok"
       THEN /\ last' = Call("CreateIssue", Lookup(t))
            /\ UNCHANGED <<issueCount, issues, assigned>>
       ELSE LET number == issueCount + 1
            IN  /\ issueCount' = number
                /\ IF IssuesNil
                   THEN /\ last' = Call("CreateIssue", "panic")
                        /\ UNCHANGED <<issues, assigned>>
                   ELSE /\ issues' = issues \cup {number}
                        /\ assigned' = Append(assigned, [kind |-> "issue", number |-> number])
                        /\ last' = [Call("CreateIssue", "nil") EXCEPT !.number = number]
  /\ UNCHANGED <<logsVars, matchVars, fetchVars, nameVars, releaseCalls, built, pullRequests, commits,
                 releases, lastMerged>>

\* Lines 387-414, on a pull request of owner t[1], repository t[2] and the
\* number given.  A pull request without commits panics at line 403.
MergePullRequest ==
  /\ ~Crashed
  /\ \E t \in Targets, number \in 1..MaxNumber :
       IF Lookup(t) # "ok"
       THEN /\ last' = [Call("MergePullRequest", Lookup(t)) EXCEPT !.number = number]
            /\ UNCHANGED <<pullRequests, commits, lastMerged>>
       ELSE IF number \notin DOMAIN pullRequests
       THEN /\ last' = [Call("MergePullRequest", "PullRequestNotFound") EXCEPT !.number = number]
            /\ UNCHANGED <<pullRequests, commits, lastMerged>>
       ELSE IF pullRequests[number].commits = <<>>
       THEN /\ last' = [Call("MergePullRequest", "panic") EXCEPT !.number = number]
            /\ UNCHANGED <<pullRequests, commits, lastMerged>>
       ELSE LET l == Len(pullRequests[number].commits)
                lastCommit == pullRequests[number].commits[l]
            IN  /\ commits' = IF Len(commits) = 0 THEN Append(commits, lastCommit)
                              ELSE [commits EXCEPT ![Len(commits)] = lastCommit]
                /\ pullRequests' = Without(pullRequests, number)
                /\ lastMerged' = number
                /\ last' = [Call("MergePullRequest", "nil") EXCEPT !.number = number,
                                                                   !.sha = lastCommit]
  /\ UNCHANGED <<logsVars, matchVars, fetchVars, nameVars, releaseCalls, built, issueCount, issues, releases,
                 assigned>>

\* The SHA line 248 takes for the merge commit: r.Commits[0].
MergeCommitOf(cs) == cs[1]

\* Lines 234-265, on a pull request object whose Merged and MergeCommitSHA
\* are not set.  An absent pull request in a repository without commits
\* panics at line 248.
UpdatePullRequestStatus ==
  /\ ~Crashed
  /\ \E t \in Targets, number \in 1..MaxNumber :
       /\ IF Lookup(t) # "ok"
          THEN last' = [Call("UpdatePullRequestStatus", Lookup(t)) EXCEPT !.number = number]
          ELSE IF number \notin DOMAIN pullRequests
          THEN IF Len(commits) = 0
               THEN last' = [Call("UpdatePullRequestStatus", "panic") EXCEPT !.number = number]
               ELSE last' = [Call("UpdatePullRequestStatus", "nil") EXCEPT
                               !.number = number, !.merged = "true",
                               !.sha = MergeCommitOf(commits)]
          ELSE last' = [Call("UpdatePullRequestStatus", "nil") EXCEPT !.number = number]
  /\ UNCHANGED <<logsVars, matchVars, fetchVars, nameVars, releaseCalls, built, issueCount, pullRequests,
                 issues, commits, releases, assigned, lastMerged>>

ProviderNext == CreatePullRequest \/ CreateIssue \/ MergePullRequest \/ UpdatePullRequestStatus

ReleaseBudget == releaseCalls < MaxReleaseCalls

\* Lines 595-608.  The write to a nil Releases map panics.
UpdateRelease ==
  /\ ~Crashed
  /\ ReleaseBudget
  /\ \E t \in Targets, tag \in Tags, info \in Infos :
       /\ releaseCalls' = releaseCalls + 1
       /\ IF Lookup(t) # "ok"
          THEN /\ last' = [Call("UpdateRelease", Lookup(t)) EXCEPT !.tag = tag, !.info = info]
               /\ UNCHANGED releases
          ELSE IF ReleasesNil
          THEN /\ last' = [Call("UpdateRelease", "panic") EXCEPT !.tag = tag, !.info = info]
               /\ UNCHANGED releases
          ELSE /\ releases' = (tag :> info) @@ releases
               /\ last' = [Call("UpdateRelease", "nil") EXCEPT !.tag = tag, !.info = info]
  /\ UNCHANGED <<logsVars, matchVars, fetchVars, nameVars, built, issueCount, pullRequests,
                 issues, commits, assigned, lastMerged>>

\* Lines 610-626: the values of the map, in the order the range over the map
\* yields them, which is any order.
ListReleases ==
  LET n == Cardinality(DOMAIN releases)
  IN  { l \in [1..n -> {releases[k] : k \in DOMAIN releases}] :
          \E f \in [1..n -> DOMAIN releases] :
            /\ \A i, j \in 1..n : i # j => f[i] # f[j]
            /\ \A i \in 1..n : l[i] = releases[f[i]] }

\* Lines 634-639: the first release of the list whose TagName is the tag.
FirstTagged(l, tag) ==
  LET hits == {i \in 1..Len(l) : l[i].TagName = tag}
  IN  IF hits = {} THEN NoRelease ELSE l[CHOOSE i \in hits : \A j \in hits : i <= j]

\* Lines 628-640.
GetRelease ==
  /\ ~Crashed
  /\ ReleaseBudget
  /\ \E t \in Targets, tag \in Tags :
       /\ releaseCalls' = releaseCalls + 1
       /\ IF Lookup(t) # "ok"
          THEN last' = [Call("GetRelease", Lookup(t)) EXCEPT !.tag = tag]
          ELSE \E l \in ListReleases :
                 last' = [Call("GetRelease", "nil") EXCEPT !.tag = tag,
                                                           !.ret = FirstTagged(l, tag)]
  /\ UNCHANGED <<logsVars, matchVars, fetchVars, nameVars, built, issueCount, pullRequests,
                 issues, commits, releases, assigned, lastMerged>>

ReleaseNext == UpdateRelease \/ GetRelease

\* No FakeProvider is in use.
ProviderIdle ==
  /\ built = "literal"
  /\ issueCount = 0
  /\ pullRequests = <<>>
  /\ issues = {}
  /\ commits = <<>>
  /\ releases = <<>>
  /\ assigned = <<>>
  /\ lastMerged = 0
  /\ releaseCalls = 0
  /\ last = Call("none", "panic")

AuxIdle == NameIdle /\ ProviderIdle

\* The platform a call may start with.  Runs and pods are interchangeable, so
\* at the start r2 exists only beside r1, and p1 is the pod that is not the
\* younger.
\* p1 matches the activity exactly, or up to the case of its branch, or not
\* at all (another build), and carries the label r1; p2 matches exactly with
\* any run-name label, or not at all.  A pod not yet listed has nothing
\* started; a listed one has none or all of its containers started (one
\* started container is reached by a platform step); p1 may have failed
\* before any container started.
RunSets == {{}, {"r1"}, {"r1", "r2"}}

PodSetups(p) ==
  { c \in [labels : PodLabelSets, run : RunLabels, created : 1..2] :
      IF p = "p1"
      THEN c.run = "r1" /\ c.created = 1
      ELSE c.labels.branch = Activity.branch /\ (c.labels # Activity => c.run = "r1") }

PodStates(p) ==
  { s \in [listed : BOOLEAN, failed : BOOLEAN, started : {0, Len(Containers)}] :
      /\ ~s.listed => (~s.failed /\ s.started = 0)
      /\ s.failed => (s.started = 0 /\ p = "p1") }

LogsInit ==
  /\ runs \in RunSets
  /\ podCfg \in [PodNames -> UNION {PodSetups(p) : p \in PodNames}]
  /\ \A p \in PodNames : podCfg[p] \in PodSetups(p)
  /\ podLive \in [PodNames -> UNION {PodStates(p) : p \in PodNames}]
  /\ \A p \in PodNames : podLive[p] \in PodStates(p)
  /\ envSteps = 0
  /\ pc = "start"
  /\ pipelineRunNames = {}
  /\ pipelineRunsLogged = {}
  /\ foundLogs = FALSE
  /\ pods = <<>>
  /\ podIdx = 1
  /\ runsSeenForPods = {}
  /\ cur = EmptyPod
  /\ ci = 1
  /\ result = "none"
  /\ out = <<>>
  /\ iters = 0

Init == LogsInit /\ MatchIdle /\ FetchIdle /\ AuxIdle

\* No call of GetRunningBuildLogs is made: an empty platform.
LogsIdle ==
  /\ runs = {}
  /\ podCfg = [p \in PodNames |-> [labels |-> Activity, run |-> "r1", created |-> 1]]
  /\ podLive = [p \in PodNames |-> [listed |-> FALSE, failed |-> FALSE, started |-> 0]]
  /\ envSteps = 0
  /\ pc = "done"
  /\ pipelineRunNames = {}
  /\ pipelineRunsLogged = {}
  /\ foundLogs = FALSE
  /\ pods = <<>>
  /\ podIdx = 1
  /\ runsSeenForPods = {}
  /\ cur = EmptyPod
  /\ ci = 1
  /\ result = "none"
  /\ out = <<>>
  /\ iters = 0

MatchInit ==
  /\ LogsIdle
  /\ FetchIdle
  /\ AuxIdle
  /\ paList \in ListsOf(ActivitySet, MaxActivities)
  /\ prList \in ListsOf(RunSet, MaxRuns)
  /\ mpc = "idle"
  /\ paMap = <<>>
  /\ tektonPRs = <<>>
  /\ mi = 1
  /\ names = <<>>
  /\ mres = <<>>

MatchSpec == MatchInit /\ [][MatchNext]_vars

FetchInit ==
  /\ LogsIdle
  /\ MatchIdle
  /\ AuxIdle
  /\ logsURL \in Schemes
  /\ content \in Contents
  /\ fpc = "idle"
  /\ readCalls = 0
  /\ data = ""
  /\ httpFnCalls = 0
  /\ resolverCalls = 0
  /\ resolverRet = "none"
  /\ httpFnRet = "none"
  /\ fout = <<>>
  /\ fres = <<>>

FetchSpec == FetchInit /\ [][FetchNext]_vars

Next == Program \/ Environment

Spec == Init /\ [][Next]_vars

\* The call is one thread that runs until it returns: its next step is
\* always taken.  Nothing is assumed of the platform.
FairSpec == Spec /\ WF_vars(Program)

\* The get of a pod that is gone fails; the get of a pod that is there need
\* not fail.
PollGone ==
  /\ IF cur.name \in PodNames THEN ~podLive[cur.name].listed ELSE TRUE
  /\ PollError

\* The steps of the call that are taken without a fault of the platform.
Steady ==
  Start \/ LoopHead \/ Visit \/ WaitEntry \/ PollStarted \/ PollGone \/ Header \/ Stream \/ Requery

\* The call runs until it returns, and no get of a pod that is there is
\* assumed to fail.
PollFairSpec == Spec /\ WF_vars(Steady)

\* One call of one of the three entry points, on any platform.
CoreInit == Init \/ MatchInit \/ FetchInit
CoreNext == Next \/ MatchNext \/ FetchNext
CoreSpec == CoreInit /\ [][CoreNext]_vars

\* createPipelineActivityName applied to any labels and build number.
NameInit ==
  /\ LogsIdle /\ MatchIdle /\ FetchIdle /\ ProviderIdle
  /\ nlabels \in LabelInputs
  /\ nbuild \in BuildInputs
  /\ nkey = "none"

NameSpec == NameInit /\ [][ApplyName]_vars

\* A FakeProvider holding the repository acme/widgets, made either way, with
\* no, one or two commits, before any call.
RepositoryInit ==
  /\ LogsIdle /\ MatchIdle /\ FetchIdle /\ NameIdle
  /\ built \in Builds
  /\ issueCount = 0
  /\ pullRequests = <<>>
  /\ issues = {}
  /\ commits \in {<<>>, <<"c1">>, <<"c1", "c2">>}
  /\ releases = <<>>
  /\ assigned = <<>>
  /\ lastMerged = 0
  /\ releaseCalls = 0
  /\ last = Call("none", "nil")

\* Any sequence of calls that create, merge and update pull requests and
\* create issues.
ProviderSpec == RepositoryInit /\ [][ProviderNext]_vars

\* Any sequence of calls of UpdateRelease and GetRelease.
ReleaseSpec == RepositoryInit /\ [][ReleaseNext]_vars

(***************************************************************************)
(* Properties of GetRunningBuildLogs.                                      *)
(***************************************************************************)
\* Outcomes of the call that report a failed query or writer call, or a crash.
Failures == {"RunQueryError", "PodListError", "WriteError", "StreamError", "panic"}

\* The labels of pod p equal the activity's attributes (branch ignoring case).
LabelsMatch(p) ==
  LET l == podCfg[p].labels
  IN  /\ l.owner = Activity.owner
      /\ l.repo = Activity.repo
      /\ ToLower(l.branch) = ToLower(Activity.branch)
      /\ l.build = Activity.build

\* The call is inside the processing of the pod pods[podIdx].
Processing == pc \in {"wait", "poll", "header", "stream"}

\* C1: at-most-once logging.  No unit/sub-task pair receives two StreamLog
\* calls during one call of GetRunningBuildLogs, and no unit is being
\* processed (waited for, given a header, streamed) while its run-name label
\* is in the Logged-Run Set, however long the run and its units stay visible:
\* the run of a unit streamed in an earlier iteration is in that set.
C1_AtMostOnce ==
  /\ \A i, j \in 1..Len(out) :
       (i < j /\ out[i].k = "stream" /\ out[j].k = "stream")
         => ~(out[i].unit = out[j].unit /\ out[i].c = out[j].c)
  /\ Processing => PipelineRunOf(pods[podIdx]) \notin pipelineRunsLogged
  /\ \A i \in 1..Len(out) :
       (out[i].k = "stream" /\ out[i].it < iters)
         => podCfg[out[i].unit].run \in pipelineRunsLogged

\* A second iteration has gone through a pod list that still holds a unit
\* streamed in the first one.
C1_Witness ==
  /\ iters >= 2
  /\ pc = "requery"
  /\ \E i \in 1..Len(out), j \in 1..Len(pods) :
       out[i].k = "stream" /\ out[i].it = 1 /\ pods[j].name = out[i].unit

\* C2: no run is silently skipped.  When the call returns nil, every run name
\* of the last run query is in the Logged-Run Set.
C2_NoRunSkipped ==
  (pc = "done" /\ result = "nil") => pipelineRunNames \subseteq pipelineRunsLogged

\* C3: fallback trigger.  Unless some unit matches (or a platform query
\* fails), the call eventually returns the LogsUnavailable condition.
C3_FallbackTrigger ==
  <>(foundLogs \/ (pc = "done" /\ result \in {"LogsUnavailable", "RunQueryError", "PodListError"}))

\* C4: the call returns LogsUnavailable exactly when the loop has ended (its
\* condition is false, no failure was returned) with foundLogs still false;
\* it returns nil only if a unit matched; and LogsUnavailable is none of the
\* failure outcomes.
C4_LogsUnavailable ==
  pc = "done" =>
    /\ result \in Failures \cup {"nil", "LogsUnavailable"}
    /\ "LogsUnavailable" \notin Failures
    /\ result = "LogsUnavailable" => (~foundLogs /\ ~LoopCondition /\ out = <<>>)
    /\ result = "nil" => (foundLogs /\ ~LoopCondition)
    /\ result \notin Failures => (result = "LogsUnavailable" <=> ~foundLogs)

\* The loop ran at least once, never found a unit, and ended.
C4_Witness == pc = "done" /\ result = "LogsUnavailable" /\ iters > 0

\* Every run of the record has a listed unit that matches the record, carries
\* the run's name and has all its sub-tasks started; nothing has changed
\* since the call began.
C5_Resolvable ==
  /\ envSteps = 0
  /\ \A r \in runs : \E p \in PodNames :
       /\ podLive[p].listed /\ LabelsMatch(p) /\ podCfg[p].run = r
       /\ podLive[p].started = Len(Containers)

\* Every listed unit that matches the record has all its sub-tasks started.
C5_AllMatchingStarted ==
  \A p \in PodNames :
    (podLive[p].listed /\ LabelsMatch(p)) => podLive[p].started = Len(Containers)

\* C5 as claimed: with every run resolvable and an unchanged platform, the
\* call never has to wait, its loop body runs exactly once, and (no query or
\* writer call failing) it returns nil.
C5_OneIteration ==
  C5_Resolvable =>
    /\ pc # "poll"
    /\ (pc = "done" /\ result \notin Failures) => (iters = 1 /\ result = "nil")

\* C5 as amended: the same, for a record that has at least one run and whose
\* matching units all have their sub-tasks started.
C5_OneIterationAmended ==
  (C5_Resolvable /\ C5_AllMatchingStarted /\ runs # {}) =>
    /\ pc # "poll"
    /\ iters <= 1
    /\ (pc = "done" /\ result \notin Failures) => (iters = 1 /\ result = "nil")

\* Two runs, each with its started unit, logged in one iteration.
C5_Witness ==
  /\ C5_Resolvable /\ C5_AllMatchingStarted
  /\ runs = RunNames
  /\ pc = "done" /\ result = "nil" /\ iters = 1

\* What the writer saw of unit u: the kind and sub-task name of each call.
CallsOf(u) ==
  LET mine == SelectSeq(out, LAMBDA e : e.unit = u)
  IN  [i \in 1..Len(mine) |-> <<mine[i].k, Containers[mine[i].c]>>]

HeaderThenStream ==
  <<<<"header", "build">>, <<"stream", "build">>, <<"header", "test">>, <<"stream", "test">>>>

\* C6: every StreamLog directly follows the successful header WriteLog of the
\* same unit and sub-task, and every successful header is directly followed
\* by that StreamLog; the sub-tasks of a unit come in declared order; a unit
\* whose sub-tasks were all started gets no other line, so that after a nil
\* return the writer has seen of it header(build), stream(build),
\* header(test), stream(test).
C6_HeaderBeforeStream ==
  /\ \A i \in 1..Len(out) :
       out[i].k = "stream" =>
         /\ i > 1
         /\ out[i - 1] = [out[i] EXCEPT !.k = "header", !.ok = TRUE]
  /\ \A i \in 1..Len(out) :
       (out[i].k = "header" /\ out[i].ok) =>
         IF i < Len(out)
         THEN out[i + 1].k = "stream" /\ out[i + 1].unit = out[i].unit
              /\ out[i + 1].c = out[i].c
         ELSE pc = "stream"
  /\ \A i, j \in 1..Len(out) :
       (i < j /\ out[i].unit = out[j].unit) => out[i].c <= out[j].c
  /\ \A i \in 1..Len(out) :
       out[i].k = "waiting" =>
         ~(envSteps = 0 /\ podLive[out[i].unit].started = Len(Containers))
  /\ (pc = "done" /\ result = "nil") =>
       \A u \in PodNames :
         (CallsOf(u) # <<>> /\ \A i \in 1..Len(out) : out[i].unit = u => out[i].k # "waiting")
           => CallsOf(u) = HeaderThenStream

\* One run, one listed unit with build and test started, and a nil return
\* after exactly the four calls.
C6_Witness ==
  /\ pc = "done" /\ result = "nil"
  /\ Cardinality(runs) = 1
  /\ Cardinality({p \in PodNames : podLive[p].listed}) = 1
  /\ Len(out) = 4
  /\ \E u \in PodNames : CallsOf(u) = HeaderThenStream

(***************************************************************************)
(* Properties of GetTektonPipelinesWithActivePipelineActivity.             *)
(***************************************************************************)
\* The returns of calls whose two list queries succeeded.
CleanReturns == {k \in 1..Len(mres) : mres[k].clean}

InSeq(x, seq) == \E i \in 1..Len(seq) : seq[i] = x

\* The run has a record of its canonical key among the listed activities.
HasRecord(pr) == RunKey(pr) \in DOMAIN BuildIndex(paList)

\* C7: disambiguation.  Two listed runs of one canonical key that matches an
\* execution record, with different context attributes, give two distinct
\* names in the returned list, each a key of the returned map that maps to
\* the record.
C7_Disambiguation ==
  \A k \in CleanReturns : \A i, j \in 1..Len(prList) :
    LET a == prList[i]
        b == prList[j]
    IN  (RunKey(a) = RunKey(b) /\ HasRecord(a) /\ a.context # b.context) =>
          /\ NameWithContext(a) # NameWithContext(b)
          /\ \A n \in {NameWithContext(a), NameWithContext(b)} :
               /\ InSeq(n, mres[k].names)
               /\ n \in DOMAIN mres[k].paMap
               /\ mres[k].paMap[n] = BuildIndex(paList)[RunKey(a)]

\* The run has no build label and declares the parameter build_id.
IsLegacy(pr) ==
  pr.build = "" /\ \E i \in 1..Len(pr.params) : pr.params[i].name = "build_id"

\* The otherwise identical run that carries the build label b.
WithBuildLabel(pr, b) == [pr EXCEPT !.build = b]

BuildIdOf(pr) ==
  pr.params[CHOOSE i \in 1..Len(pr.params) : pr.params[i].name = "build_id"].value

\* The listed runs, each legacy run replaced by its labelled twin.
LabelledRuns ==
  [i \in 1..Len(prList) |->
     IF IsLegacy(prList[i]) THEN WithBuildLabel(prList[i], BuildIdOf(prList[i]))
     ELSE prList[i]]

\* C8: legacy build number recovery.  A run without build label that declares
\* build_id = b has the canonical key and the disambiguated name of its twin
\* with the build label b, and the call returns what it returns with every
\* legacy run replaced by its twin; a non-empty build label is the build
\* number whatever build_id says.
C8_LegacyBuildNumber ==
  /\ \A i \in 1..Len(prList) :
       LET pr == prList[i]
       IN  /\ IsLegacy(pr) =>
                /\ RunKey(pr) = RunKey(WithBuildLabel(pr, BuildIdOf(pr)))
                /\ RunKey(pr) = createPipelineActivityName(pr, BuildIdOf(pr))
                /\ NameWithContext(pr) = NameWithContext(WithBuildLabel(pr, BuildIdOf(pr)))
           /\ pr.build # "" => RunKey(pr) = createPipelineActivityName(pr, pr.build)
  /\ \A k \in CleanReturns :
       LET twin == MatchOf(paList, LabelledRuns)
       IN  mres[k].names = twin.names /\ mres[k].paMap = twin.paMap

\* A call returned the name of a legacy run, and a run whose build_id differs
\* from its label was listed too.
C8_Witness ==
  /\ \E k \in CleanReturns : \E i \in 1..Len(prList) :
       IsLegacy(prList[i]) /\ InSeq(NameWithContext(prList[i]), mres[k].names)
  /\ \E i \in 1..Len(prList) :
       /\ prList[i].build # ""
       /\ \E j \in 1..Len(prList[i].params) :
            prList[i].params[j].name = "build_id" /\ prList[i].params[j].value # prList[i].build

IsPermutation(s, t) ==
  /\ Len(s) = Len(t)
  /\ \A x \in {s[i] : i \in 1..Len(s)} \cup {t[i] : i \in 1..Len(t)} :
       Cardinality({i \in 1..Len(s) : s[i] = x}) = Cardinality({i \in 1..Len(t) : t[i] = x})

\* The names of the runs of a list that have a record, in the list's order.
RECURSIVE NamesWithRecord(_)
NamesWithRecord(prs) ==
  IF prs = <<>> THEN <<>>
  ELSE (IF HasRecord(Head(prs)) THEN <<NameWithContext(Head(prs))>> ELSE <<>>)
         \o NamesWithRecord(Tail(prs))

\* C10: the returned list holds one name per listed run that has an execution
\* record of its canonical key, in the order of the runs by creation time,
\* most recent first, and nothing for the other runs.
C10_OrderedNames ==
  (mpc = "range" /\ mi > Len(tektonPRs)) =>
    /\ IsPermutation(tektonPRs, prList)
    /\ \A i, j \in 1..Len(tektonPRs) : i < j => tektonPRs[i].created >= tektonPRs[j].created
    /\ names = NamesWithRecord(tektonPRs)

(***************************************************************************)
(* Failed units and failed queries in GetRunningBuildLogs.                 *)
(***************************************************************************)
\* The pod object shows the failed phase and container idx not started.
FailedBeforeStart(pod, idx) == pod.failed /\ ~HasContainerStarted(pod, idx)

\* C11: short-circuit of a failed unit.  No header WriteLog and no StreamLog
\* is issued for a sub-task whose unit was seen in the failed phase before the
\* sub-task started: the last call the writer received is never a header or a
\* stream of such a sub-task of the pod object at hand.
C11_ShortCircuit ==
  \A i \in 1..Len(out) :
    (i = Len(out) /\ out[i].k \in {"header", "stream"} /\ out[i].pod = cur.name)
      => ~FailedBeforeStart(cur, out[i].c)

\* C12: the wait for a sub-task ends once the unit is failed.  Whenever the
\* call is polling for a sub-task of a unit whose phase is failed, the poll
\* loop is eventually left.
C12_WaitEnds ==
  (pc = "poll" /\ cur.name \in PodNames /\ podLive[cur.name].failed) ~> (pc # "poll")

\* C13: expected failure.  When the unit of a sub-task is seen in the failed
\* phase, the writer has received a warning line for that unit by the time
\* the header of the sub-task is due, and no error is returned for it.
C13_ExpectedFailure ==
  (pc = "header" /\ cur.failed) =>
    /\ result = "none"
    /\ \E i \in 1..Len(out) : out[i].k = "warning" /\ out[i].unit = cur.name

\* A get of the unit at hand has failed: the pod object is the one that came
\* with the error.
GetFailed == foundLogs /\ cur.name \notin PodNames

\* C14: a failed platform query ends the call.  After a failed run list or
\* unit list the call has returned the error; after a failed get of a unit
\* the call has returned an error and the writer has received nothing since
\* the line that announced the wait.
C14_QueryErrorReturned ==
  /\ result \in {"RunQueryError", "PodListError"} => pc = "done"
  /\ GetFailed =>
       /\ pc = "done"
       /\ result \in Failures
       /\ out # <<>> /\ out[Len(out)].k = "waiting"

(***************************************************************************)
(* Failed queries in GetTektonPipelinesWithActivePipelineActivity.         *)
(***************************************************************************)
\* C15: a failed store query ends the correlation.  A call one of whose two
\* list queries failed returns an error, no names and no mapping.
C15_MatchQueryError ==
  \A k \in 1..Len(mres) :
    ~mres[k].clean =>
      /\ mres[k].err \notin {"nil", "panic"}
      /\ mres[k].names = <<>>
      /\ mres[k].paMap = <<>>

(***************************************************************************)
(* Selection and the Logged-Run Set.                                       *)
(***************************************************************************)
\* The selection predicate of the specification, for pod p now: owner,
\* repository and build equal the record's, the branch equals it ignoring
\* case, and the run-name label is not in the Logged-Run Set.
ShouldSelect(p) == LabelsMatch(p) /\ podCfg[p].run \notin pipelineRunsLogged

\* The writer received a StreamLog for every sub-task of pod p.
StreamedWhole(p) ==
  \A c \in 1..Len(Containers) :
    \E i \in 1..Len(out) : out[i].k = "stream" /\ out[i].unit = p /\ out[i].c = c

NewlyLogged == pipelineRunsLogged' \ pipelineRunsLogged

\* C17: the Logged-Run Set is empty when the call starts, no step removes a
\* run name from it, and a step adds run names only at the end of an
\* iteration (the merge after the run query) and only names carried by a unit
\* of the iteration's list that satisfied the selection predicate and had
\* every sub-task streamed.
C17_LoggedRunSet ==
  [][/\ pc = "start" => pipelineRunsLogged = {}
     /\ pipelineRunsLogged \subseteq pipelineRunsLogged'
     /\ NewlyLogged # {} =>
          /\ pc = "requery" /\ pc' = "loop"
          /\ \A r \in NewlyLogged :
               \E j \in 1..Len(pods) :
                 /\ podCfg[pods[j].name].run = r
                 /\ ShouldSelect(pods[j].name)
                 /\ StreamedWhole(pods[j].name)]_vars

\* The Logged-Run Set grew in two iterations: a unit streamed in the first
\* and a unit streamed in a later one have their runs in it.
C17_Witness ==
  /\ pc = "loop"
  /\ Cardinality(pipelineRunsLogged) = 2
  /\ \E i, j \in 1..Len(out) :
       /\ out[i].k = "stream" /\ out[j].k = "stream"
       /\ out[i].it < out[j].it
       /\ podCfg[out[i].unit].run # podCfg[out[j].unit].run

(***************************************************************************)
(* Frame of the three entry points.                                        *)
(***************************************************************************)
\* The stores of the platform: runs and units, activities and runs listed.
Platform == <<runs, podCfg, podLive, paList, prList>>

\* C18: the core never mutates platform state.  A step that changes the
\* stored runs, units or records is a step of the environment, which leaves
\* the variables of the calls as they are; and the records of the map the
\* correlation builds are the listed records, unmodified.
C18_ReadOnly ==
  /\ [][Platform' # Platform =>
          /\ envSteps' = envSteps + 1
          /\ UNCHANGED <<progVars, mpc, paMap, tektonPRs, mi, names, mres, fetchVars>>]_vars
  /\ [](\A k \in DOMAIN paMap : InSeq(paMap[k], paList))

\* A call of GetRunningBuildLogs streamed a unit and returned nil on a
\* platform that changed while it ran.
C18_Witness == pc = "done" /\ result = "nil" /\ envSteps = 1 /\ Len(out) >= 4

(***************************************************************************)
(* Properties of StreamPipelinePersistentLogs.                             *)
(***************************************************************************)
\* The calls the writer received during call number n of the fetcher.
WritesOf(n) == SelectSeq(fout, LAMBDA e : e.call = n)

\* Call number n of the fetcher is running.
Fetching == fpc \in {"read", "authFailed", "readAuthed", "write"}

\* C19: persisted log fetcher.  Each call makes one read; a call whose read
\* failed returns the read's error and the writer received nothing in it; a
\* call whose read succeeded made exactly one WriteLog, of the whole content,
\* and returns that WriteLog's result; the writer receives nothing before the
\* read has ended, and never a StreamLog.
C19_Fetch ==
  /\ readCalls = Len(fres) + (IF Fetching THEN 1 ELSE 0)
  /\ \A i \in 1..Len(fout) : fout[i].k = "write" /\ fout[i].line = content
  /\ WritesOf(Len(fres) + 1) = <<>>
  /\ \A n \in 1..Len(fres) :
       IF fres[n].err \in {"ReadError", "ResolverError", "InnerError"}
       THEN WritesOf(n) = <<>>
       ELSE /\ Len(WritesOf(n)) = 1
            /\ fres[n].err = (IF WritesOf(n)[1].ok THEN "nil" ELSE "WriteError")

\* Two calls on a log of two lines: the read of the first failed, the second
\* wrote the log and returned nil.
C19_Witness ==
  /\ Len(fres) = 2
  /\ fres[1].err = "ReadError" /\ fres[2].err = "nil"
  /\ content = "step 1\nstep 2\n"
  /\ Len(fout) = 1

\* C20: lazy credential resolution.  The resolver is called only by the
\* function createBucketHTTPFn returned, once per call of it, while
\* buckets.ReadURL is reading (never when the function is created, never by
\* GetRunningBuildLogs or the correlation), and an error of the resolver is
\* what the function returns.
C20_LazyResolver ==
  /\ [][resolverCalls' # resolverCalls =>
          /\ fpc = "read"
          /\ resolverCalls' = resolverCalls + 1
          /\ httpFnCalls' = httpFnCalls + 1]_vars
  /\ [](resolverCalls = httpFnCalls)
  /\ [](resolverRet = "ResolverError" => httpFnRet = "ResolverError")
  /\ []((fpc = "off" \/ logsURL = "gs") => resolverCalls = 0)

\* A second call is reading, its function not yet called, after a first call
\* in which the resolver failed and the call returned that error.
C20_Witness ==
  /\ fpc = "read"
  /\ Len(fres) = 1 /\ fres[1].err = "ResolverError"
  /\ readCalls = 2 /\ resolverCalls = 1

(***************************************************************************)
(* Order of the units within an iteration.                                 *)
(***************************************************************************)
\* Writer call i is a StreamLog of the running iteration: the run of its unit
\* is not yet in the Logged-Run Set (the merge at the end of an iteration
\* puts the runs of all its streamed units there).
StreamedNow(i) == out[i].k = "stream" /\ podCfg[out[i].unit].run \notin pipelineRunsLogged

\* C21: within one iteration the units are streamed in ascending order of
\* creation.  Of two StreamLog calls of one iteration, the later one is not of
\* a unit created strictly before the unit of the earlier one.
C21_AscendingWithinIteration ==
  /\ \A i, j \in 1..Len(out) :
       (i < j /\ StreamedNow(i) /\ StreamedNow(j))
         => podCfg[out[i].unit].created <= podCfg[out[j].unit].created
  /\ \A i, j \in 1..Len(out) :
       (i < j /\ out[i].k = "stream" /\ out[j].k = "stream"
          /\ out[i].it = out[j].it /\ out[j].it < MaxIters)
         => podCfg[out[i].unit].created <= podCfg[out[j].unit].created

\* One iteration streamed two units created at different times.
C21_Witness ==
  /\ pc = "requery"
  /\ \E i, j \in 1..Len(out) :
       /\ i < j /\ StreamedNow(i) /\ StreamedNow(j)
       /\ podCfg[out[i].unit].created < podCfg[out[j].unit].created

\* Across iterations the order is not kept: a unit is streamed after a unit
\* created later that was streamed in an earlier iteration.
C21_AcrossIterations ==
  \E i, j \in 1..Len(out) :
    /\ i < j /\ out[i].k = "stream" /\ out[j].k = "stream"
    /\ out[i].it < out[j].it
    /\ podCfg[out[i].unit].created > podCfg[out[j].unit].created

(***************************************************************************)
(* Failures of the writer.                                                 *)
(***************************************************************************)
\* C23: writer failures abort the call.  A header WriteLog or a StreamLog
\* that returned an error is the last call the writer received, the call has
\* returned an error of the matching kind (so that no StreamLog followed the
\* failed header), and once the call has returned it issues nothing more.
C23_WriterFailureAborts ==
  /\ [](\A i \in 1..Len(out) :
          ~out[i].ok =>
            /\ i = Len(out)
            /\ pc = "done"
            /\ result = (IF out[i].k = "header" THEN "WriteError" ELSE "StreamError"))
  /\ [](result \in {"WriteError", "StreamError"} => (out # <<>> /\ ~out[Len(out)].ok))
  /\ [][pc = "done" => UNCHANGED progVars]_vars

\* The StreamLog of the second sub-task of a unit failed after the first
\* sub-task was streamed.
C23_Witness ==
  /\ pc = "done" /\ result = "StreamError"
  /\ out[Len(out)].c = 2
  /\ \E i \in 1..Len(out) : out[i].k = "stream" /\ out[i].ok

(***************************************************************************)
(* The map of the correlation.                                             *)
(***************************************************************************)
\* The canonical key of the i-th listed record.
RecordKey(i) == createPipelineActivityName(paList[i], paList[i].build)

\* The i-th listed record is the last one of its key.
LastOfKey(i) == \A j \in 1..Len(paList) : RecordKey(j) = RecordKey(i) => j <= i

\* Some listed run has the canonical key k.
KeyMatched(k) == \E j \in 1..Len(prList) : RunKey(prList[j]) = k

\* The disambiguated names of the listed runs of canonical key k.
EnrichedNames(k) ==
  {NameWithContext(prList[j]) : j \in {j \in 1..Len(prList) : RunKey(prList[j]) = k}}

ListedRecords == {paList[i] : i \in 1..Len(paList)}

Folded(v) ==
  IF v = "Acme" THEN "acme"
  ELSE IF v = "Widgets" THEN "widgets"
  ELSE IF v = "Master" THEN "master"
  ELSE v

\* The label set with every value in lower case.
FoldedLabels(l) ==
  [owner |-> Folded(l.owner), repository |-> Folded(l.repository), repo |-> Folded(l.repo),
   branch |-> Folded(l.branch)]

\* The repository the labels name: the modern label, else the legacy one.
NamedRepository(l) == IF l.repository # "" THEN l.repository ELSE l.repo

\* C22: name correlator.  The function returns a string for every label set;
\* the name is that of the same labels in lower case; it is the name of the
\* labels that carry the named repository only as repository, and of those
\* that carry it only as repo; a non-empty repository label makes the repo
\* label irrelevant; with no label and no build number the name is "// #",
\* and Acme, gadgets (legacy), Master, 7 give "acme/gadgets/master #7".
C22_NameCorrelator ==
  nkey \notin {"none", "off"} =>
    /\ nkey \in STRING
    /\ nkey = createPipelineActivityName(FoldedLabels(nlabels), nbuild)
    /\ nkey = createPipelineActivityName(
                [nlabels EXCEPT !.repository = NamedRepository(nlabels), !.repo = ""], nbuild)
    /\ nkey = createPipelineActivityName(
                [nlabels EXCEPT !.repository = "", !.repo = NamedRepository(nlabels)], nbuild)
    /\ nlabels.repository # "" =>
         \A r \in {"", "widgets", "gadgets"} :
           nkey = createPipelineActivityName([nlabels EXCEPT !.repo = r], nbuild)
    /\ (nlabels = [owner |-> "", repository |-> "", repo |-> "", branch |-> ""] /\ nbuild = "")
         => nkey = "// #"
    /\ (nlabels = [owner |-> "Acme", repository |-> "", repo |-> "gadgets", branch |-> "Master"]
          /\ nbuild = "7")
         => nkey = "acme/gadgets/master #7"
    /\ (nlabels = [owner |-> "acme", repository |-> "Widgets", repo |-> "gadgets",
                   branch |-> "master"] /\ nbuild = "7")
         => nkey = "acme/widgets/master #7"

\* The name of labels that carry the repository only under the legacy label,
\* with a capital in owner and branch.
C22_Witness ==
  /\ nkey = "acme/widgets/master #7"
  /\ nlabels.repository = "" /\ nlabels.repo = "widgets"
  /\ nlabels.owner = "Acme" /\ nlabels.branch = "Master"

(***************************************************************************)
(* Properties of the FakeProvider.                                         *)
(***************************************************************************)
\* The last call was a successful UpdatePullRequestStatus on the pull request
\* that the last successful merge removed.
StatusAfterMerge ==
  /\ last.op = "UpdatePullRequestStatus" /\ last.err = "nil"
  /\ lastMerged # 0 /\ last.number = lastMerged

\* C25: merge protocol.  After a pull request was merged, a call of
\* UpdatePullRequestStatus on it finds it absent, sets Merged to true and
\* sets MergeCommitSHA to the SHA of the last commit of the repository's
\* commit list; and the merge left the last commit of the pull request there.
C25_MergeProtocol ==
  /\ (last.op = "MergePullRequest" /\ last.err = "nil") =>
       /\ last.number \notin DOMAIN pullRequests
       /\ commits # <<>> /\ commits[Len(commits)] = last.sha
  /\ StatusAfterMerge =>
       /\ last.number \notin DOMAIN pullRequests
       /\ last.merged = "true"
       /\ last.sha = commits[Len(commits)]

\* C27: numbering.  The numbers successful CreatePullRequest and CreateIssue
\* calls return are 1, 2, 3, ... in the order of the calls, whichever of the
\* two each call is, so none is returned twice, also after a merge removed a
\* pull request; the stored pull requests and issues carry numbers returned
\* to calls of their kind; and a call that ends with organisation or
\* repository not found leaves the counter, the pull requests, the issues and
\* the commits as they were.
C27_Numbering ==
  /\ [](\A i \in 1..Len(assigned) : assigned[i].number = i)
  /\ [](~Crashed => issueCount = Len(assigned))
  /\ [](/\ DOMAIN pullRequests \subseteq
             {assigned[i].number : i \in {i \in 1..Len(assigned) : assigned[i].kind = "pr"}}
        /\ issues =
             {assigned[i].number : i \in {i \in 1..Len(assigned) : assigned[i].kind = "issue"}})
  /\ [][last'.err \in {"OrgNotFound", "RepoNotFound"} =>
          UNCHANGED <<issueCount, pullRequests, issues, commits, assigned>>]_vars

\* Pull request 1 was merged, an issue got the number 2, and a pull request
\* created after the merge got the number 3.
C27_Witness ==
  /\ last.op = "CreatePullRequest" /\ last.err = "nil" /\ last.number = 3
  /\ lastMerged = 1
  /\ Len(assigned) = 3 /\ assigned[2].kind = "issue"

\* C28: release round trip.  After UpdateRelease returned nil the release is
\* stored under its tag; GetRelease of a tag returns, with no error, the
\* release last stored under that tag, and nil for a tag under which none was
\* stored; and
\* both return a not-found error and leave the releases as they were when
\* the organisation or the repository is absent.
C28_ReleaseRoundTrip ==
  /\ []((last.op = "UpdateRelease" /\ last.err = "nil") =>
          (last.tag \in DOMAIN releases /\ releases[last.tag] = last.info))
  /\ [](last.op = "GetRelease" =>
          /\ last.err \in {"OrgNotFound", "RepoNotFound", "nil"}
          /\ last.err = "nil" =>
               last.ret = (IF last.tag \in DOMAIN releases THEN releases[last.tag] ELSE NoRelease)
          /\ last.err # "nil" => last.ret = NoRelease)
  /\ [][last'.err \in {"OrgNotFound", "RepoNotFound"} => UNCHANGED releases]_vars

====
